---- MODULE Spec2Model ----
(***************************************************************************)
(* terraform-index: the indexing engine of index.go (version 1.2.0).       *)
(*                                                                         *)
(* A Go string is a sequence of atoms: an atom is a run of characters      *)
(* holding neither a quote, a dot nor an interpolation marker, or one of   *)
(* the marks "\"", ".", "${", "}".  The empty string is << >>.  Columns    *)
(* are counted in atoms.                                                   *)
(***************************************************************************)
EXTENDS Integers, Sequences, FiniteSets, TLC

VARIABLES
    Errors, Variables, DefaultProviders, Providers, Resources,
    DataResources, Modules, Outputs, References, RawAst,   \* the Index
    stderr,      \* lines written by warning()
    includeRaw,  \* main's -raw-ast flag
    calls,       \* CollectString calls made so far (main's position in flag.Args())
    used,        \* source lines handed to the parser so far
    source,      \* main's source: the content handed to the running (or last) call
    pc,          \* "idle" | "walk" | "handleObjectList" | "accept" | "panic"
    path,        \* the path argument of the running (or last) call
    astFile,     \* the astFile argument of the running (or last) Collect
    agenda,      \* nodes hclast.Walk still has to visit, in visiting order
    cur,         \* the ObjectList handleObjectList is looping over
    idx,         \* the loop index into cur.Items
    acc,         \* variable accesses root.Accept still has to visit
    hist         \* history: every name handed to addReference, in order

index == <<Errors, Variables, DefaultProviders, Providers, Resources,
           DataResources, Modules, Outputs, References, RawAst>>
decls == <<Variables, DefaultProviders, Providers, Resources,
           DataResources, Modules, Outputs>>
walk == <<pc, path, astFile, agenda, cur, idx, acc>>
vars == <<index, stderr, includeRaw, calls, used, source, walk, hist>>

(* Bounds of the model. *)
MaxCalls == 2
MaxItems == 2

(* hcltoken.IDENT, the token type handleObjectList compares with. *)
IDENT == 4

--------------------------------------------------------------------------
(* Strings. *)

Quote == "\""
Dot == "."

RECURSIVE TrimLeft(_, _)
TrimLeft(s, c) ==
    IF s # << >> /\ Head(s) = c THEN TrimLeft(Tail(s), c) ELSE s

RECURSIVE TrimRight(_, _)
TrimRight(s, c) ==
    IF s # << >> /\ s[Len(s)] = c THEN TrimRight(SubSeq(s, 1, Len(s) - 1), c) ELSE s

(* strings.Trim(s, cutset) for a one-character cutset. *)
Trim(s, c) == TrimRight(TrimLeft(s, c), c)

(* strings.Index: the first place of sep in s, 0 when there is none. *)
IndexOf(s, sep) ==
    IF \E j \in 1..Len(s) : s[j] = sep
    THEN CHOOSE j \in 1..Len(s) : s[j] = sep /\ \A k \in 1..(j - 1) : s[k] # sep
    ELSE 0

(* strings.SplitN(s, sep, n), n > 0: at most n parts, the last the unsplit rest. *)
RECURSIVE SplitN(_, _, _)
SplitN(s, sep, n) ==
    LET j == IndexOf(s, sep)
    IN  IF n <= 1 \/ j = 0 THEN << s >>
        ELSE << SubSeq(s, 1, j - 1) >> \o SplitN(SubSeq(s, j + 1, Len(s)), sep, n - 1)

--------------------------------------------------------------------------
(* Positions, tokens and the hcl syntax tree. *)

NoFile == << >>

(* What the hcl scanner gives a token: it never sees a path. *)
ScanPos(line, col) ==
    [Filename |-> NoFile, Offset |-> 16 * (line - 1) + (col - 1),
     Line |-> line, Column |-> col]

ZeroPos == [Filename |-> NoFile, Offset |-> 0, Line |-> 0, Column |-> 0]

Ident(text, line, col) ==
    [Type |-> IDENT, Text |-> << text >>, Pos |-> ScanPos(line, col)]
Str(body, line, col) ==
    [Type |-> 9, Text |-> << Quote >> \o body \o << Quote >>, Pos |-> ScanPos(line, col)]

NilNode == [kind |-> "nil"]
NoComment == [nil |-> TRUE, List |-> << >>]
Comment(texts) == [nil |-> FALSE, List |-> texts]

Key(tok) == [kind |-> "ObjectKey", Token |-> tok]
Literal(tok) == [kind |-> "LiteralType", Token |-> tok]
ObjectList(items) == [kind |-> "ObjectList", Items |-> items]
ObjectType(items) == [kind |-> "ObjectType", List |-> ObjectList(items)]
ListType(nodes) == [kind |-> "ListType", List |-> nodes]
ObjectItem(keys, val, lead) ==
    [kind |-> "ObjectItem", Keys |-> keys, Val |-> val, LeadComment |-> lead]

(* key = "..." inside a body *)
Attr(name, body, line, col) ==
    ObjectItem(<< Key(Ident(name, line, col)) >>,
               Literal(Str(body, line, col + 2)), NoComment)

Interp(name) == << "${" >> \o name \o << "}" >>

--------------------------------------------------------------------------
(* The configuration parser, hcl.ParseBytes.  The content of a file is a    *)
(* sequence of source lines, each one top-level snippet; the parser gives   *)
(* the item of line l the positions of line l.                              *)

Block(kw, labels, body, lead, line) ==
    ObjectItem(<< Key(Ident(kw, line, 1)) >>
                 \o [k \in 1..Len(labels) |-> Key(Str(labels[k], line, k + 1))],
               ObjectType(body), lead)

ItemAt(s, l) ==
    CASE s = "variable" ->      \* # doc / variable "x" {}
           Block("variable", << << "x" >> >>, << >>,
                 Comment(<< << "# doc" >>, << >> >>), l)
      [] s = "resource" ->      \* resource "aws_instance" "web" { ami = "${var.x}" output "o" {} }
           Block("resource", << << "aws_instance" >>, << "web" >> >>,
                 << Attr("ami", Interp(<< "var", Dot, "x" >>), l, 5),
                    ObjectItem(<< Key(Ident("output", l, 8)), Key(Str(<< "o" >>, l, 9)) >>,
                               ObjectType(<< >>), NoComment) >>,
                 NoComment, l)
      [] s = "data" ->          \* data "aws_ami" "web" { id = "${aws_instance.web.id}" }
           Block("data", << << "aws_ami" >>, << "web" >> >>,
                 << Attr("id", Interp(<< "aws_instance", Dot, "web", Dot, "id" >>), l, 5) >>,
                 NoComment, l)
      [] s = "provider" ->      \* provider "aws" { region = "${var.web}" }
           Block("provider", << << "aws" >> >>,
                 << Attr("region", Interp(<< "var", Dot, "web" >>), l, 5) >>,
                 NoComment, l)
      [] s = "alias" ->         \* provider "aws" { alias = "east" }
           Block("provider", << << "aws" >> >>,
                 << Attr("alias", << "east" >>, l, 5) >>, NoComment, l)
      [] s = "alias_list" ->    \* provider "aws" { alias = ["east"] }
           Block("provider", << << "aws" >> >>,
                 << ObjectItem(<< Key(Ident("alias", l, 5)) >>,
                               ListType(<< Literal(Str(<< "east" >>, l, 8)) >>),
                               NoComment) >>,
                 NoComment, l)
      [] s = "module" ->        \* module "m" { source = "${1 +}" }
           Block("module", << << "m" >> >>,
                 << Attr("source", Interp(<< "1", "+" >>), l, 5) >>, NoComment, l)
      [] s = "output" ->        \* output "o" { value = "${aws_instance.web.a.b} ${var.x}" }
           Block("output", << << "o" >> >>,
                 << Attr("value",
                         Interp(<< "aws_instance", Dot, "web", Dot, "a", Dot, "b" >>)
                           \o Interp(<< "var", Dot, "x" >>), l, 5) >>,
                 NoComment, l)
      [] s = "locals" ->        \* locals { v = "${foo}" }
           Block("locals", << >>, << Attr("v", Interp(<< "foo" >>), l, 5) >>, NoComment, l)
      [] s = "quoted" ->        \* "variable" "q" { <an item the parser left without keys> }
           ObjectItem(<< Key(Str(<< "variable" >>, l, 1)), Key(Str(<< "q" >>, l, 2)) >>,
                      ObjectType(<< ObjectItem(<< >>, Literal(Str(<< "v" >>, l, 5)),
                                               NoComment) >>),
                      NoComment)
      [] s = "provider_attr" -> \* provider = "aws"
           Attr("provider", << "aws" >>, l, 1)
      [] s = "var1" ->          \* variable = "x"
           Attr("variable", << "x" >>, l, 1)
      [] s = "res2" ->          \* resource "t" {}
           Block("resource", << << "t" >> >>, << >>, NoComment, l)
      [] s = "alias1" ->        \* provider { alias = "x" }
           Block("provider", << >>, << Attr("alias", << "x" >>, l, 5) >>, NoComment, l)
      [] s = "nested_data" ->   \* module "m" { data = "x" }
           Block("module", << << "m" >> >>, << Attr("data", << "x" >>, l, 5) >>,
                 NoComment, l)

(* Lines the parser accepts, and lines it rejects. *)
GoodLines == {"variable", "resource", "data", "provider", "alias", "alias_list",
              "provider_attr", "module", "output", "locals", "quoted",
              "var1", "res2", "alias1", "nested_data"}
BadLines == {"syntax", "garbage"}
Lines == GoodLines \cup BadLines

RECURSIVE SeqsUpTo(_, _)
SeqsUpTo(S, n) ==
    IF n = 0 THEN { << >> }
    ELSE LET shorter == SeqsUpTo(S, n - 1)
         IN  shorter \cup { Append(q, x) : q \in shorter, x \in S }

(* hcl.ParseBytes: a file, a *PosError at the first rejected line, or (a
   content the parser cannot read at all) an error without a position. *)
ParseBytes(contents) ==
    LET bad == { k \in 1..Len(contents) : contents[k] \in BadLines }
        first == CHOOSE k \in bad : \A j \in bad : k <= j
    IN  IF \E k \in bad : contents[k] = "garbage"
        THEN [err |-> TRUE, posError |-> FALSE, Message |-> "unknown config format",
              Pos |-> ZeroPos]
        ELSE IF bad # {}
        THEN [err |-> TRUE, posError |-> TRUE, Message |-> "syntax error",
              Pos |-> ScanPos(first, 1)]
        ELSE [err |-> FALSE,
              file |-> [Node |-> ObjectList([k \in 1..Len(contents) |->
                                                ItemAt(contents[k], k)])]]

--------------------------------------------------------------------------
(* hclast.Walk: the callback runs on a node, then on the node's children in *)
(* order; Collect's callback acts on ObjectList and LiteralType nodes only  *)
(* (and on the nil that ends each node's visit it does nothing).            *)

Children(n) ==
    CASE n.kind = "ObjectList" -> n.Items
      [] n.kind = "ObjectItem" ->
           n.Keys \o (IF n.Val.kind = "nil" THEN << >> ELSE << n.Val >>)
      [] n.kind = "ObjectType" -> << n.List >>
      [] n.kind = "ListType" -> n.List
      [] OTHER -> << >>

Handled(n) == n.kind \in {"ObjectList", "LiteralType"}

(* The agenda with the nodes the callback ignores walked through. *)
RECURSIVE Settle(_)
Settle(ag) ==
    IF Len(ag) = 0 THEN ag
    ELSE IF Handled(Head(ag)) THEN ag
    ELSE Settle(Children(Head(ag)) \o Tail(ag))

--------------------------------------------------------------------------
(* The expression parser, hil.ParseWithPosition: text outside ${ } is kept  *)
(* as it is; inside, a dotted name is a variable access and a number is a   *)
(* literal; anything else is rejected.                                      *)

HilAt(start, k) ==
    [Column |-> start.Column + k - 1, Line |-> start.Line, Filename |-> start.Filename]

IsName(e) ==
    /\ Len(e) > 0
    /\ Len(e) % 2 = 1
    /\ \A k \in 1..Len(e) :
          IF k % 2 = 1 THEN e[k] \notin {Dot, "+", "1", "${", "}", Quote} ELSE e[k] = Dot

RECURSIVE HilScan(_, _, _, _)
HilScan(text, k, start, found) ==
    IF k > Len(text) THEN [err |-> FALSE, accesses |-> found]
    ELSE IF text[k] # "${" THEN HilScan(text, k + 1, start, found)
    ELSE LET rest == SubSeq(text, k + 1, Len(text))
             close == IndexOf(rest, "}")
             expr == SubSeq(rest, 1, close - 1)
         IN  IF close = 0
             THEN [err |-> TRUE, Message |-> "expected expression end",
                   Pos |-> HilAt(start, Len(text))]
             ELSE IF IsName(expr)
             THEN HilScan(text, k + close + 1, start,
                          Append(found, [Name |-> expr, Pos |-> HilAt(start, k + 1)]))
             ELSE IF expr = << "1" >>
             THEN HilScan(text, k + close + 1, start, found)
             ELSE [err |-> TRUE, Message |-> "parse error",
                   Pos |-> HilAt(start, k + close)]

HilParse(text, start) == HilScan(text, 1, start, << >>)

--------------------------------------------------------------------------
(* index.go: helpers. *)

Warning(line, column, message) ==
    [Line |-> line, Column |-> column, Message |-> message]

makeError(e, p) ==
    IF e.posError
    THEN [Message |-> e.Message, Location |-> e.Pos]
    ELSE [Message |-> e.Message, Location |-> ZeroPos]

getText(t) == Trim(t.Text, Quote)

getPos(t, p) == [t.Pos EXCEPT !.Filename = p]

commentGroup(group) ==
    IF group.nil THEN << >>
    ELSE SelectSeq(group.List, LAMBDA text : text # << >>)

toHilPos(pos) ==
    [Column |-> pos.Column, Line |-> pos.Line, Filename |-> pos.Filename]

toHclPos(pos) ==
    [Column |-> pos.Column, Line |-> pos.Line, Filename |-> pos.Filename, Offset |-> 0]

toHclPosWithPath(pos, p) == [toHclPos(pos) EXCEPT !.Filename = p]

(* ObjectItem.Pos(): the first key's position, the zero position without keys. *)
ItemPos(item) ==
    IF Len(item.Keys) = 0 THEN ZeroPos ELSE item.Keys[1].Token.Pos

(* extractPropertyValue: [err, value]. *)
extractPropertyValue(item, property) ==
    IF item.Val.kind # "ObjectType" THEN [err |-> TRUE, value |-> << >>]
    ELSE LET items == item.Val.List.Items
             hits == { k \in 1..Len(items) :
                          /\ Len(items[k].Keys) # 0
                          /\ getText(items[k].Keys[1].Token) = property
                          /\ items[k].Val.kind = "LiteralType" }
             first == CHOOSE k \in hits : \A j \in hits : k <= j
         IN  IF hits = {} THEN [err |-> TRUE, value |-> << >>]
             ELSE [err |-> FALSE, value |-> getText(items[first].Val.Token)]

UntypedSection(name, location, doc) ==
    [Name |-> name, Location |-> location, Documentation |-> doc]
TypedSection(type, name, location, doc) ==
    [Type |-> type, Name |-> name, Location |-> location, Documentation |-> doc]

ZeroList == [Name |-> << >>, Type |-> << >>, Path |-> << >>, Locations |-> << >>]

(* index.References[name]: the zero ReferenceList for a missing key. *)
Lookup(refs, name) == IF name \in DOMAIN refs THEN refs[name] ELSE ZeroList

(* A store into a map made anew for the stored key. *)
StoreAlone(refs, name, list) == [k \in {name} |-> list]

(* index.References[name] = list *)
Store(refs, name, list) ==
    [k \in (DOMAIN refs) \cup {name} |-> IF k = name THEN list ELSE refs[k]]

(* A key that tells the kinds apart. *)
RefKeyQualified(parts) == parts[1] \o << Dot >> \o parts[2]

RefKey(parts) == parts[2]

RefType(parts) == IF parts[1] = << "var" >> THEN << "variable" >> ELSE parts[1]

RefPath(old, parts) == IF Len(parts) > 2 THEN parts[3] ELSE old

(* An upsert that keeps one copy of a position already in the list. *)
UpsertOnce(refs, parts, pos) ==
    LET name == RefKey(parts)
        list == Lookup(refs, name)
        seen == \E k \in 1..Len(list.Locations) : list.Locations[k] = pos
    IN  Store(refs, name,
              [Name |-> name, Type |-> RefType(parts),
               Path |-> RefPath(list.Path, parts),
               Locations |-> IF seen THEN list.Locations
                                     ELSE Append(list.Locations, pos)])

(* addReference past its guard: the upserted map. *)
Upsert(refs, parts, pos) ==
    LET name == RefKey(parts)
        list == Lookup(refs, name)
    IN  Store(refs, name,
              [Name |-> name, Type |-> RefType(parts),
               Path |-> RefPath(list.Path, parts),
               Locations |-> Append(list.Locations, pos)])

--------------------------------------------------------------------------
(* The program. *)

PathOf(k) == << "file", k >>

NoAst == [Node |-> NilNode]

Init ==
    /\ Errors = << >> /\ Variables = << >> /\ DefaultProviders = << >>
    /\ Providers = << >> /\ Resources = << >> /\ DataResources = << >>
    /\ Modules = << >> /\ Outputs = << >>
    /\ References = [n \in {} |-> ZeroList]
    /\ RawAst = NoAst
    /\ stderr = << >>
    /\ includeRaw \in BOOLEAN
    /\ calls = 0 /\ used = 0 /\ source = << >>
    /\ pc = "idle" /\ path = NoFile /\ astFile = NoAst
    /\ agenda = << >> /\ cur = ObjectList(<< >>) /\ idx = 1 /\ acc = << >>
    /\ hist = << >>

(* A rejected content that still reaches Collect's last statement, with no
   tree to keep. *)
CollectStringErrorKeepsNoTree(contents) ==
    LET parsed == ParseBytes(contents)
    IN  /\ parsed.err
        /\ calls' = calls + 1 /\ used' = used + Len(contents) /\ source' = contents
        /\ path' = PathOf(calls + 1)
        /\ Errors' = Append(Errors, makeError(parsed, PathOf(calls + 1)))
        /\ RawAst' = IF includeRaw THEN NoAst ELSE RawAst
        /\ UNCHANGED <<decls, References, stderr, includeRaw, hist>>
        /\ UNCHANGED <<pc, astFile, agenda, cur, idx, acc>>

(* main's loop calls CollectString on the next path; the parser rejects the
   content: one Error, and the call returns. *)
CollectStringError(contents) ==
    LET parsed == ParseBytes(contents)
    IN  /\ parsed.err
        /\ calls' = calls + 1 /\ used' = used + Len(contents) /\ source' = contents
        /\ path' = PathOf(calls + 1)
        /\ Errors' = Append(Errors, makeError(parsed, PathOf(calls + 1)))
        /\ UNCHANGED <<decls, References, RawAst, stderr, includeRaw, hist>>
        /\ UNCHANGED <<pc, astFile, agenda, cur, idx, acc>>

(* CollectString on a content the parser accepts: Collect starts the walk at
   astFile.Node. *)
CollectString(contents) ==
    LET parsed == ParseBytes(contents)
    IN  /\ ~parsed.err
        /\ calls' = calls + 1 /\ used' = used + Len(contents) /\ source' = contents
        /\ path' = PathOf(calls + 1)
        /\ astFile' = parsed.file
        /\ agenda' = Settle(<< parsed.file.Node >>)
        /\ pc' = "walk"
        /\ UNCHANGED <<index, stderr, includeRaw, cur, idx, acc, hist>>

(* main's loop: between calls, and with arguments left. *)
AtCall == pc = "idle" /\ calls < MaxCalls
Contents == SeqsUpTo(Lines, MaxItems - used)

(* The walk is over: Collect keeps the tree when asked to, and returns. *)
CollectReturn ==
    /\ pc = "walk" /\ agenda = << >>
    /\ RawAst' = IF includeRaw THEN astFile ELSE RawAst
    /\ pc' = "idle"
    /\ UNCHANGED <<Errors, decls, References, stderr, includeRaw, calls, used, source,
                   path, astFile, agenda, cur, idx, acc, hist>>

(* The callback on an ObjectList: handleObjectList starts its loop. *)
VisitObjectList ==
    /\ pc = "walk" /\ agenda # << >> /\ Head(agenda).kind = "ObjectList"
    /\ cur' = Head(agenda) /\ idx' = 1
    /\ agenda' = Tail(agenda)
    /\ pc' = "handleObjectList"
    /\ UNCHANGED <<index, stderr, includeRaw, calls, used, source, path, astFile, acc, hist>>

(* handleObjectList's loop is over: the walk goes on into the list's items. *)
ObjectListDone ==
    /\ pc = "handleObjectList" /\ idx > Len(cur.Items)
    /\ agenda' = Settle(cur.Items \o agenda)
    /\ pc' = "walk"
    /\ UNCHANGED <<index, stderr, includeRaw, calls, used, source, path, astFile, cur, idx, hist, acc>>

AtItem == pc = "handleObjectList" /\ idx <= Len(cur.Items)
item == cur.Items[idx]
firstToken == item.Keys[1].Token
Keyword(kw) == AtItem /\ Len(item.Keys) # 0 /\ firstToken.Type = IDENT /\ firstToken.Text = << kw >>

Keywords == {"variable", "resource", "data", "provider", "module", "output"}

Continue == idx' = idx + 1 /\ UNCHANGED <<pc, path, astFile, agenda, cur, acc>>

(* An index past the end of item.Keys: the run-time panic ends the process. *)
Panic ==
    /\ pc' = "panic"
    /\ UNCHANGED <<index, stderr, includeRaw, calls, used, source, path, astFile, agenda,
                   cur, idx, acc, hist>>

SkipEmptyKeys ==
    /\ AtItem /\ Len(item.Keys) = 0
    /\ stderr' = Append(stderr, Warning(ItemPos(item).Line, ItemPos(item).Column,
                                        "Ignoring token with empty 'Keys[]"))
    /\ Continue
    /\ UNCHANGED <<index, includeRaw, calls, used, source, hist>>

SkipItem ==
    /\ AtItem /\ Len(item.Keys) # 0
    /\ ~(firstToken.Type = IDENT /\ firstToken.Text \in { << kw >> : kw \in Keywords })
    /\ Continue
    /\ UNCHANGED <<index, stderr, includeRaw, calls, used, source, hist>>

(* Around a declaration appended to one list: the loop goes on. *)
Appended ==
    /\ Continue
    /\ UNCHANGED <<Errors, References, RawAst, stderr, includeRaw, calls, used, source, hist>>

(* The record of a `resource` or `data` item. *)
TypedOf(it, p) ==
    TypedSection(getText(it.Keys[2].Token), getText(it.Keys[3].Token),
                 getPos(it.Keys[3].Token, p), commentGroup(it.LeadComment))

(* The record of a `variable`, `output` or `module` item. *)
UntypedOf(it, p) ==
    UntypedSection(getText(it.Keys[2].Token), getPos(it.Keys[2].Token, p),
                   commentGroup(it.LeadComment))

(* The record of a provider without an alias. *)
DefaultProviderOf(it, p) ==
    UntypedSection(getText(it.Keys[1].Token), getPos(it.Keys[1].Token, p),
                   commentGroup(it.LeadComment))

(* The record of a provider with an alias. *)
AliasedProviderOf(it, alias, p) ==
    TypedSection(getText(it.Keys[2].Token), alias, getPos(it.Keys[2].Token, p),
                 commentGroup(it.LeadComment))

extractResourceDeclaration ==
    /\ Keyword("resource")
    /\ IF Len(item.Keys) < 3 THEN Panic
       ELSE /\ Resources' = Append(Resources, TypedOf(item, path))
            /\ Appended
            /\ UNCHANGED <<Variables, DefaultProviders, Providers, DataResources, Modules, Outputs>>

extractDataDeclaration ==
    /\ Keyword("data")
    /\ IF Len(item.Keys) < 3 THEN Panic
       ELSE /\ DataResources' = Append(DataResources, TypedOf(item, path))
            /\ Appended
            /\ UNCHANGED <<Variables, DefaultProviders, Providers, Resources, Modules, Outputs>>

extractVariableDeclaration ==
    /\ Keyword("variable")
    /\ IF Len(item.Keys) < 2 THEN Panic
       ELSE /\ Variables' = Append(Variables, UntypedOf(item, path))
            /\ Appended
            /\ UNCHANGED <<DefaultProviders, Providers, Resources, DataResources, Modules, Outputs>>

extractOutputDeclaration ==
    /\ Keyword("output")
    /\ IF Len(item.Keys) < 2 THEN Panic
       ELSE /\ Outputs' = Append(Outputs, UntypedOf(item, path))
            /\ Appended
            /\ UNCHANGED <<Variables, DefaultProviders, Providers, Resources, DataResources, Modules>>

extractModuleDeclaration ==
    /\ Keyword("module")
    /\ IF Len(item.Keys) < 2 THEN Panic
       ELSE /\ Modules' = Append(Modules, UntypedOf(item, path))
            /\ Appended
            /\ UNCHANGED <<Variables, DefaultProviders, Providers, Resources, DataResources, Outputs>>

extractProviderDeclaration ==
    /\ Keyword("provider")
    /\ LET alias == extractPropertyValue(item, << "alias" >>)
       IN  IF alias.err
           THEN /\ DefaultProviders' =
                      Append(DefaultProviders, DefaultProviderOf(item, path))
                /\ Appended
                /\ UNCHANGED <<Variables, Providers, Resources, DataResources,
                               Modules, Outputs>>
           ELSE IF Len(item.Keys) < 2 THEN Panic
           ELSE /\ Providers' =
                      Append(Providers, AliasedProviderOf(item, alias.value, path))
                /\ Appended
                /\ UNCHANGED <<Variables, DefaultProviders, Resources, DataResources,
                               Modules, Outputs>>

(* The callback on a LiteralType: handleLiteral. *)
AtLiteral == pc = "walk" /\ agenda # << >> /\ Head(agenda).kind = "LiteralType"
literal == Head(agenda)
root == HilParse(literal.Token.Text, toHilPos(literal.Token.Pos))

(* The expression parser rejects the text: one Error (of a *ParseError, or of
   another error), and the walk goes on. *)
HilError(parseError) ==
    IF parseError
    THEN [Message |-> root.Message, Location |-> toHclPos(root.Pos)]
    ELSE [Message |-> root.Message, Location |-> literal.Token.Pos]

(* A rejected literal that halts the walk. *)
handleLiteralErrorHalts(parseError) ==
    /\ AtLiteral /\ root.err
    /\ Errors' = Append(Errors, HilError(parseError))
    /\ agenda' = << >>
    /\ UNCHANGED <<decls, References, RawAst, stderr, includeRaw, calls, used, source,
                   pc, path, astFile, cur, idx, acc, hist>>

handleLiteralError(parseError) ==
    /\ AtLiteral /\ root.err
    /\ Errors' = Append(Errors, HilError(parseError))
    /\ agenda' = Settle(Tail(agenda))
    /\ UNCHANGED <<decls, References, RawAst, stderr, includeRaw, calls, used, source,
                   pc, path, astFile, cur, idx, acc, hist>>

(* The text parses: root.Accept visits its variable accesses in order. *)
handleLiteral ==
    /\ AtLiteral /\ ~root.err
    /\ acc' = root.accesses
    /\ pc' = IF root.accesses = << >> THEN "walk" ELSE "accept"
    /\ agenda' = Settle(Tail(agenda))
    /\ UNCHANGED <<index, stderr, includeRaw, calls, used, source, path, astFile, cur, idx, hist>>

AtAccess == pc = "accept" /\ acc # << >>
variable == Head(acc)
reference == variable.Name
parts == SplitN(reference, Dot, 3)
refPos == toHclPosWithPath(variable.Pos, path)

NextAccess ==
    /\ acc' = Tail(acc)
    /\ pc' = IF Tail(acc) = << >> THEN "walk" ELSE "accept"
    /\ hist' = Append(hist, [Name |-> reference, Pos |-> refPos])
    /\ UNCHANGED <<path, astFile, agenda, cur, idx, includeRaw, calls, used, source>>

(* addReference on a name of fewer than two components: a warning only. *)
(* A reference that cannot be understood, reported in Errors as well. *)
addReferenceWarningAsError ==
    /\ AtAccess /\ Len(parts) < 2
    /\ stderr' = Append(stderr, Warning(refPos.Line, refPos.Column, "Cannot understand reference"))
    /\ Errors' = Append(Errors, [Message |-> << "Cannot understand reference" >>,
                                 Location |-> refPos])
    /\ NextAccess
    /\ UNCHANGED <<decls, References, RawAst>>

addReferenceWarning ==
    /\ AtAccess /\ Len(parts) < 2
    /\ stderr' = Append(stderr, Warning(refPos.Line, refPos.Column,
                                        "Cannot understand reference"))
    /\ NextAccess
    /\ UNCHANGED index

addReference ==
    /\ AtAccess /\ Len(parts) >= 2
    /\ References' = Upsert(References, parts, refPos)
    /\ NextAccess
    /\ UNCHANGED <<Errors, decls, RawAst, stderr>>

RejectedCall == AtCall /\ \E contents \in Contents : CollectStringError(contents)
AcceptedCall == AtCall /\ \E contents \in Contents : CollectString(contents)

Next ==
    \/ RejectedCall
    \/ AcceptedCall
    \/ CollectReturn
    \/ VisitObjectList
    \/ ObjectListDone
    \/ SkipEmptyKeys
    \/ SkipItem
    \/ extractVariableDeclaration
    \/ extractResourceDeclaration
    \/ extractDataDeclaration
    \/ extractProviderDeclaration
    \/ extractModuleDeclaration
    \/ extractOutputDeclaration
    \/ \E parseError \in BOOLEAN : handleLiteralError(parseError)
    \/ handleLiteral
    \/ addReferenceWarning
    \/ addReference

Spec == Init /\ [][Next]_vars

(* main's loop when an argument names the path of the call before it once
   more: the same content is read and accepted again, under the same path. *)
CollectStringAgain ==
    /\ AtCall /\ calls > 0 /\ used + Len(source) <= MaxItems
    /\ ~ParseBytes(source).err
    /\ calls' = calls + 1 /\ used' = used + Len(source)
    /\ astFile' = ParseBytes(source).file
    /\ agenda' = Settle(<< ParseBytes(source).file.Node >>)
    /\ pc' = "walk"
    /\ UNCHANGED <<index, stderr, includeRaw, source, path, cur, idx, acc, hist>>

NextAgain ==
    \/ Next
    \/ CollectStringAgain

(* The program run on argument lists that may repeat a path. *)
SpecAgain == Init /\ [][NextAgain]_vars

--------------------------------------------------------------------------
(* Properties. *)

Last(q) == q[Len(q)]

(* new is old with exactly one element appended. *)
GrewByOne(old, new) == Len(new) = Len(old) + 1 /\ SubSeq(new, 1, Len(old)) = old

Stamped(pos, p) == [pos EXCEPT !.Filename = p]

Text(it, k) == Trim(it.Keys[k].Token.Text, Quote)

(* The item's body is an object with a key `alias` bound to a literal. *)
HasAlias(it) ==
    /\ it.Val.kind = "ObjectType"
    /\ \E k \in 1..Len(it.Val.List.Items) :
          LET sub == it.Val.List.Items[k]
          IN  /\ Len(sub.Keys) > 0
              /\ Text(sub, 1) = << "alias" >>
              /\ sub.Val.kind = "LiteralType"

(* The list named by a keyword grows by one record and no other list changes. *)
OnlyGrows(kw) ==
    /\ IF kw = "variable" THEN GrewByOne(Variables, Variables') ELSE UNCHANGED Variables
    /\ IF kw = "resource" THEN GrewByOne(Resources, Resources') ELSE UNCHANGED Resources
    /\ IF kw = "data" THEN GrewByOne(DataResources, DataResources')
       ELSE UNCHANGED DataResources
    /\ IF kw = "module" THEN GrewByOne(Modules, Modules') ELSE UNCHANGED Modules
    /\ IF kw = "output" THEN GrewByOne(Outputs, Outputs') ELSE UNCHANGED Outputs
    /\ IF kw = "provider"
       THEN \/ GrewByOne(DefaultProviders, DefaultProviders') /\ UNCHANGED Providers
            \/ GrewByOne(Providers, Providers') /\ UNCHANGED DefaultProviders
       ELSE UNCHANGED <<DefaultProviders, Providers>>

IsNamed(rec, it, p) ==
    /\ rec.Type = Text(it, 2)
    /\ rec.Name = Text(it, 3)
    /\ rec.Location = Stamped(it.Keys[3].Token.Pos, p)

C1_Step ==
    AtItem =>
        IF Len(item.Keys) > 0 /\ firstToken.Type = IDENT
              /\ \E kw \in Keywords : firstToken.Text = << kw >>
        THEN LET kw == CHOOSE k \in Keywords : firstToken.Text = << k >>
             IN  /\ OnlyGrows(kw)
                 /\ kw = "resource" => IsNamed(Last(Resources'), item, path)
                 /\ kw = "data" => IsNamed(Last(DataResources'), item, path)
        ELSE UNCHANGED decls

(* C1: every visited item whose first key is an identifier naming one of the
   six keywords appends exactly one record to exactly the list of that keyword
   and leaves every other declaration list unchanged; a `resource` or `data`
   record has type = second key text, name = third key text (quotes trimmed)
   and location = the position of the third key; any other item changes no
   declaration list. *)
C1_ClassifierAppendsOne == [][C1_Step]_vars

(* The second component of each name handed to addReference that has one. *)
Resolved == { k \in 1..Len(hist) : Len(hist[k].Name) >= 3 }

C2_Step ==
    (AtAccess /\ Len(reference) >= 3) =>
        LET c1 == << reference[1] >>
            c2 == << reference[3] >>
        IN  /\ c2 \in DOMAIN References'
            /\ References'[c2].Name = c2
            /\ References'[c2].Type = (IF c1 = << "var" >> THEN << "variable" >> ELSE c1)
            /\ Len(reference) >= 5 =>
                  References'[c2].Path = SubSeq(reference, 5, Len(reference))
            /\ DOMAIN References' = (DOMAIN References) \cup { c2 }
            /\ DOMAIN References' = { << hist'[k].Name[3] >> : k \in Resolved' }

(* C2: a variable access c1.c2...ck with k >= 2 is stored under the key c2 with
   Name = c2, kind `variable` for c1 = var and c1 otherwise, and for k >= 3
   path = c3...ck rejoined with dots; the key ignores the kind, so the map has
   exactly one entry per distinct second component. *)
C2_KeyedBySecondComponent == [][C2_Step]_vars

(* Two accesses of different kinds have met in the one entry of `web`. *)
C2_Witness ==
    /\ << "web" >> \in DOMAIN References
    /\ Len(References[<< "web" >>].Locations) = 2
    /\ References[<< "web" >>].Type = << "variable" >>
    /\ \E j, k \in Resolved :
          /\ hist[j].Name = << "aws_instance", Dot, "web", Dot, "id" >>
          /\ hist[k].Name = << "var", Dot, "web" >>

(* The last resolved access with second component n. *)
LastAccess(n) ==
    LET at == { k \in Resolved : << hist[k].Name[3] >> = n }
    IN  hist[CHOOSE k \in at : \A j \in at : j <= k].Name

(* C3: for every canonical name n, the kind and the attribute path of
   References[n] are those of the most recently processed access with
   identifier n; an access without an attribute path leaves the empty path. *)
C3_LatestKindAndPath ==
    \A n \in DOMAIN References :
        LET latest == LastAccess(n)
        IN  /\ References[n].Type =
                  (IF latest[1] = "var" THEN << "variable" >> ELSE << latest[1] >>)
            /\ References[n].Path = SubSeq(latest, 5, Len(latest))

(* C4: Collect runs to completion without a panic on every tree the
   configuration parser can produce. *)
C4_NoPanic == pc # "panic"

(* C5: only items of the file's top-level item list produce declaration
   records: handling an item of a nested body changes no declaration list. *)
C5_TopLevelOnly == [][(AtItem /\ cur # astFile.Node) => UNCHANGED decls]_vars

(* a is from an earlier call than b, or from the same file and earlier in it. *)
Before(a, b) ==
    \/ a.Filename[2] < b.Filename[2]
    \/ /\ a.Filename = b.Filename
       /\ \/ a.Line < b.Line
          \/ a.Line = b.Line /\ a.Column < b.Column

InDocumentOrder(list) ==
    \A j \in 1..Len(list) : \A k \in (j + 1)..Len(list) :
        Before(list[j].Location, list[k].Location)

(* C6: within each declaration list the records are in document order, those
   of an earlier call before those of a later one. *)
C6_DocumentOrder ==
    /\ InDocumentOrder(Variables) /\ InDocumentOrder(DefaultProviders)
    /\ InDocumentOrder(Providers) /\ InDocumentOrder(Resources)
    /\ InDocumentOrder(DataResources) /\ InDocumentOrder(Modules)
    /\ InDocumentOrder(Outputs)

(* Every element a step adds to a list carries the call's path. *)
NewStamped(old, new) ==
    \A k \in (Len(old) + 1)..Len(new) : new[k].Location.Filename = path'

NewLocationsStamped ==
    \A n \in DOMAIN References' :
        LET before == IF n \in DOMAIN References THEN Len(References[n].Locations) ELSE 0
        IN  \A k \in (before + 1)..Len(References'[n].Locations) :
                References'[n].Locations[k].Filename = path'

C7_Step ==
    /\ NewStamped(Variables, Variables') /\ NewStamped(DefaultProviders, DefaultProviders')
    /\ NewStamped(Providers, Providers') /\ NewStamped(Resources, Resources')
    /\ NewStamped(DataResources, DataResources') /\ NewStamped(Modules, Modules')
    /\ NewStamped(Outputs, Outputs')
    /\ NewLocationsStamped
    /\ NewStamped(Errors, Errors')

(* C7: every Location a CollectString(content, path, _) call adds to the Index
   carries file path = path: in declaration records, in ReferenceLists and in
   Errors. *)
C7_LocationsCarryPath == [][C7_Step]_vars

(* The step is a CollectString call whose content the parser rejects. *)
Rejected == calls' = calls + 1 /\ ParseBytes(source').err

C8_Step ==
    Rejected =>
        /\ GrewByOne(Errors, Errors')
        /\ UNCHANGED <<decls, References, RawAst>>
        /\ pc' = "idle" /\ UNCHANGED <<agenda, hist, stderr>>

(* C8: a CollectString call whose content the configuration parser rejects
   appends exactly one Error and returns without a traversal: the declaration
   lists, the reference map and the retained tree are as before, and the
   Index is ready for the next call. *)
C8_ParseFailureOnlyAddsError == [][C8_Step]_vars

(* A rejected content after a call that left declarations and a tree. *)
C8_Witness ==
    /\ pc = "idle" /\ calls = 2 /\ ParseBytes(source).err
    /\ Len(Errors) = 1 /\ Last(Errors).Message = "syntax error"
    /\ Len(Variables) = 1
    /\ RawAst # NoAst

C9_Step ==
    (AtLiteral /\ root.err) =>
        /\ GrewByOne(Errors, Errors')
        /\ UNCHANGED <<decls, References, RawAst, hist>>
        /\ pc' = "walk" /\ agenda' = Settle(Tail(agenda))

(* C9: a string literal the expression parser rejects appends exactly one
   Error and records no reference; the declaration lists and the reference
   map are unchanged and the walk goes on with the nodes after the literal. *)
C9_BadLiteralOnlyAddsError == [][C9_Step]_vars

(* A rejected literal, and a reference recorded from a later line. *)
C9_Witness ==
    /\ pc = "idle"
    /\ \E e \in 1..Len(Errors) :
          /\ Errors[e].Message = "parse error"
          /\ \E n \in DOMAIN References : \E k \in 1..Len(References[n].Locations) :
                 References[n].Locations[k].Line > Errors[e].Location.Line
    /\ Len(Modules) = 1 /\ Len(DefaultProviders) = 1

AliasOf(it) ==
    LET items == it.Val.List.Items
        first == CHOOSE k \in 1..Len(items) :
                    /\ HasAlias([it EXCEPT !.Val = ObjectType(SubSeq(items, k, k))])
                    /\ ~HasAlias([it EXCEPT !.Val = ObjectType(SubSeq(items, 1, k - 1))])
    IN  Trim(items[first].Val.Token.Text, Quote)

C10_Step ==
    Keyword("provider") =>
        IF HasAlias(item)
        THEN /\ GrewByOne(Providers, Providers') /\ UNCHANGED DefaultProviders
             /\ Last(Providers').Name = AliasOf(item)
             /\ Last(Providers').Type = Text(item, 2)
             /\ Last(Providers').Location = Stamped(item.Keys[2].Token.Pos, path)
        ELSE /\ GrewByOne(DefaultProviders, DefaultProviders') /\ UNCHANGED Providers
             /\ Last(DefaultProviders').Name = Text(item, 1)
             /\ Last(DefaultProviders').Location = Stamped(item.Keys[1].Token.Pos, path)

(* C10: a `provider` item is recorded in exactly one provider list: with a body
   holding a key `alias` bound to a literal, as a TypedSection {name = alias
   value, type = second key text, location = second key position} in
   Providers; in every other case as an UntypedSection {name = first key text,
   location = first key position} in DefaultProviders. *)
C10_ProviderInOneList == [][C10_Step]_vars

(* The processed occurrences that resolve to the key n, in processing order. *)
OccurrencesOf(n) ==
    SelectSeq(hist, LAMBDA h : IF Len(h.Name) >= 3 THEN << h.Name[3] >> = n ELSE FALSE)

PositionsOf(n) == [k \in 1..Len(OccurrencesOf(n)) |-> OccurrencesOf(n)[k].Pos]

(* C11: the Locations of References[n] are the positions of the processed
   variable accesses with at least two dotted components whose second
   component is n, one per occurrence and in processing order, occurrences
   with identical positions included; the keys of the map are the names with
   at least one such occurrence, so no ReferenceList has an empty location
   sequence. *)
C11_OneLocationPerOccurrence ==
    /\ DOMAIN References = { << hist[k].Name[3] >> : k \in Resolved }
    /\ \A n \in DOMAIN References :
           /\ References[n].Locations = PositionsOf(n)
           /\ Len(References[n].Locations) = Len(OccurrencesOf(n))
           /\ References[n].Locations # << >>

(* The same occurrence processed twice, and both of its positions kept. *)
C11_Witness ==
    /\ pc = "idle" /\ calls = 2
    /\ \E n \in DOMAIN References :
           /\ Len(References[n].Locations) = 2
           /\ References[n].Locations[1] = References[n].Locations[2]

(* The number of dotted components of a name. *)
Components(name) == Len(SelectSeq(name, LAMBDA a : a = Dot)) + 1

EmptyKeys == AtItem /\ Len(item.Keys) = 0
Unresolvable == AtAccess /\ Components(reference) < 2

Diagnosed(message) ==
    /\ GrewByOne(stderr, stderr')
    /\ Last(stderr').Message = message
    /\ UNCHANGED <<Errors, decls, References>>

C12_Step ==
    /\ EmptyKeys =>
           /\ Diagnosed("Ignoring token with empty 'Keys[]")
           /\ idx' = idx + 1 /\ pc' = pc
    /\ Unresolvable =>
           /\ Diagnosed("Cannot understand reference")
           /\ acc' = Tail(acc)

(* C12: an item with an empty key sequence, and a variable access whose
   dotted name has fewer than two components, are skipped: the step writes
   one diagnostic on the log channel, leaves Errors, every declaration list
   and the reference map unchanged, and the loop goes on to the next item or
   access. *)
C12_WarningsNeverReachIndex == [][C12_Step]_vars

(* Both warnings were written, and nothing was recorded for either. *)
C12_Witness ==
    /\ pc = "idle" /\ Errors = << >>
    /\ \E j \in 1..Len(stderr) : stderr[j].Message = "Ignoring token with empty 'Keys[]"
    /\ \E k \in 1..Len(stderr) : stderr[k].Message = "Cannot understand reference"
    /\ \E k \in 1..Len(hist) : Components(hist[k].Name) < 2

IsPrefix(old, new) == Len(old) <= Len(new) /\ SubSeq(new, 1, Len(old)) = old

StartsEmpty ==
    /\ Errors = << >> /\ \A k \in 1..Len(decls) : decls[k] = << >>
    /\ DOMAIN References = {}
    /\ RawAst.Node = NilNode

C13_Step ==
    /\ IsPrefix(Errors, Errors')
    /\ \A k \in 1..Len(decls) : IsPrefix(decls[k], decls'[k])
    /\ DOMAIN References \subseteq DOMAIN References'
    /\ \A n \in DOMAIN References :
           IsPrefix(References[n].Locations, References'[n].Locations)

(* C13: an Index starts with Errors and every declaration list empty, an
   empty reference map and no raw tree, and every step of every call to
   Collect or CollectString, succeeding or failing, keeps the old value of
   Errors and of each declaration list as a prefix of the new one, keeps every
   key of the reference map, and keeps the old Locations of every
   ReferenceList as a prefix of its new Locations. *)
C13_AppendOnly == StartsEmpty /\ [][C13_Step]_vars

(* A call the parser rejected has returned after a call that recorded a
   declaration and a reference, and all of them are there. *)
C13_Witness ==
    /\ pc = "idle" /\ calls = 2 /\ ParseBytes(source).err
    /\ Errors # << >>
    /\ \E k \in 1..Len(decls) : decls[k] # << >>
    /\ \E n \in DOMAIN References : References[n].Locations # << >>

====
